---- MODULE Spec2Model ----
(***************************************************************************)
(* A model of pb4.py, a Streamlit prompt-building tool.                    *)
(*                                                                         *)
(* Two CSV files are the persistent state: prompt_elements.csv and         *)
(* prompt_history.csv.  Every user interaction re-executes main(), which   *)
(* renders the four tabs in order; a handler that calls st.rerun() aborts  *)
(* the run and main() runs again without the button.                       *)
(*                                                                         *)
(* Four specifications share the definitions:                              *)
(*   Spec         one session; each action is one whole interaction        *)
(*   SpecElements the element tabs of one session, over wider inputs       *)
(*   SpecCompose  PromptBuilder over stored tables and widget selections   *)
(*   SpecConc     two sessions whose load and save steps interleave        *)
(***************************************************************************)
EXTENDS Integers, Sequences, FiniteSets, TLC

VARIABLES elements, history, now, lastOp,
          selected, custom, recursive_feedback, prompt, clicks,
          pc, local, acked

vars == <<elements, history, now, lastOp,
          selected, custom, recursive_feedback, prompt, clicks,
          pc, local, acked>>

storeVars == <<elements, history, now, lastOp>>
widgetVars == <<selected, custom, recursive_feedback, prompt, clicks>>
sessionVars == <<pc, local, acked>>

(***************************************************************************)
(* Bounds.                                                                 *)
(***************************************************************************)
MaxElems == 2
MaxHist == 2
MaxRows == 2
MaxClicks == 2
MaxPresses == 3

(***************************************************************************)
(* Constants of the program.                                               *)
(***************************************************************************)
ELEMENT_TYPES == <<"role", "goal", "audience", "context", "output", "tone">>
CSV_COLUMNS == <<"title", "type", "content">>
PROMPT_HISTORY_COLUMNS == <<"name", "timestamp", "prompt">>

Range(s) == {s[i] : i \in 1..Len(s)}

(***************************************************************************)
(* pandas CSV conversion.  A missing value is NaN in a DataFrame; to_csv   *)
(* writes it as the empty cell, and read_csv turns the empty cell and the  *)
(* default NA spellings into NaN.  (read_csv's numeric type inference is   *)
(* not modelled: the text domains below hold no numerals.)                 *)
(***************************************************************************)
NaN == "<NaN>"

NA_VALUES == {"", "#N/A", "#N/A N/A", "#NA", "-1.#IND", "-1.#QNAN", "-NaN",
              "-nan", "1.#IND", "1.#QNAN", "<NA>", "N/A", "NA", "NULL",
              "NaN", "None", "n/a", "nan", "null"}

read_cell(cell) == IF cell \in NA_VALUES THEN NaN ELSE cell

to_cell(v) == IF v = NaN THEN "" ELSE v

\* An f-string formats NaN as "nan".
Format(v) == IF v = NaN THEN "nan" ELSE v

read_row(r) == [k \in DOMAIN r |-> read_cell(r[k])]

to_row(r) == [k \in DOMAIN r |-> to_cell(r[k])]

\* A file that does not exist.
NoFile == [exists |-> FALSE, header |-> <<>>, rows |-> <<>>]

\* df.to_csv(filename, index=False): the whole file is overwritten.
to_csv(df) ==
    [exists |-> TRUE, header |-> df.columns,
     rows |-> [i \in 1..Len(df.rows) |-> to_row(df.rows[i])]]

\* pd.read_csv(filename): the columns are whatever the file holds.
read_csv(file) ==
    [columns |-> file.header,
     rows |-> [i \in 1..Len(file.rows) |-> read_row(file.rows[i])]]

\* pd.DataFrame(columns=columns)
EmptyFrame(columns) == [columns |-> columns, rows |-> <<>>]

(***************************************************************************)
(* DataManager.  load_data both returns a frame and may create the file:   *)
(* load_data is the frame, load_data_file the file it leaves behind.       *)
(***************************************************************************)
load_data_file(file, columns) ==
    IF ~file.exists THEN to_csv(EmptyFrame(columns)) ELSE file

load_data(file, columns) ==
    IF ~file.exists THEN EmptyFrame(columns) ELSE read_csv(file)

save_data(df) == to_csv(df)

\* pd.concat([df, new_row], ignore_index=True)
concat(df, new_row) == [df EXCEPT !.rows = Append(df.rows, new_row)]

(***************************************************************************)
(* PromptBuilder.                                                          *)
(***************************************************************************)
SKIP == "Skip"
WRITE_YOUR_OWN == "Write your own"

\* The sections PromptBuilder.render creates with multi_select=True.
MULTI_SELECT == {"audience", "context", "output"}

\* str.title() of the six section keys.
title_case(section) ==
    CASE section = "role" -> "Role"
      [] section = "goal" -> "Goal"
      [] section = "audience" -> "Audience"
      [] section = "context" -> "Context"
      [] section = "output" -> "Output"
      [] section = "tone" -> "Tone"

FEEDBACK_SUFFIX ==
    "\n\nBefore you provide the response, please ask me any questions..."

\* sep.join(parts)
RECURSIVE join(_, _)
join(sep, parts) ==
    IF parts = <<>> THEN ""
    ELSE IF Len(parts) = 1 THEN parts[1]
    ELSE parts[1] \o sep \o join(sep, Tail(parts))

\* df[df['type'] == element_type]
of_type(df, element_type) ==
    SelectSeq(df.rows, LAMBDA r : r.type = element_type)

\* ["Skip", "Write your own"] + elements['title'].tolist()
section_options(df, element_type) ==
    LET elems == of_type(df, element_type)
    IN  <<SKIP, WRITE_YOUR_OWN>> \o [i \in 1..Len(elems) |-> elems[i].title]

\* _create_section: `selected` is the widget's value (one option, or a list
\* of options in the order they were picked), `typed` the text of the
\* custom input, which is rendered only when "Write your own" is selected.
create_section(element_type, df, multi_select, sel, typed) ==
    LET is_custom == IF multi_select THEN WRITE_YOUR_OWN \in Range(sel)
                     ELSE sel = WRITE_YOUR_OWN
    IN  [selected |-> sel,
         multi |-> multi_select,
         custom |-> IF is_custom THEN typed ELSE "",
         elements |-> of_type(df, element_type)]

\* df[df['title'] == s]['content'].values: the whole table is searched, and
\* NaN equals nothing.
lookup_values(df, s) ==
    LET hits == SelectSeq(df.rows, LAMBDA r : s # NaN /\ r.title = s)
    IN  [i \in 1..Len(hits) |-> hits[i].content]

\* The skip test of _generate_prompt.
is_skipped(data) ==
    IF data.multi
    THEN data.selected = <<>> \/ SKIP \in Range(data.selected)
    ELSE data.selected = SKIP

\* One section's block: [raised, text].  values[0] of an empty selection
\* raises IndexError; "\n".join of a list holding NaN raises TypeError.
section_block(section, data, df) ==
    LET sel == data.selected
        picked == IF data.multi
                  THEN SelectSeq(sel, LAMBDA s : s \notin {SKIP, WRITE_YOUR_OWN})
                  ELSE IF sel = WRITE_YOUR_OWN THEN <<>> ELSE <<sel>>
        missing == \E i \in 1..Len(picked) : lookup_values(df, picked[i]) = <<>>
        found == [i \in 1..Len(picked) |-> lookup_values(df, picked[i])[1]]
        content_list ==
            (IF WRITE_YOUR_OWN \in Range(sel) THEN <<data.custom>> ELSE <<>>)
            \o found
    IN  IF missing THEN [raised |-> "IndexError", text |-> ""]
        ELSE IF data.multi
        THEN IF NaN \in Range(content_list)
             THEN [raised |-> "TypeError", text |-> ""]
             ELSE [raised |-> "",
                   text |-> title_case(section) \o ":\n"
                            \o join("\n", content_list)]
        ELSE [raised |-> "",
              text |-> title_case(section) \o ": "
                       \o (IF sel = WRITE_YOUR_OWN THEN data.custom
                           ELSE Format(found[1]))]

\* The loop of _generate_prompt over selections.items(), whose order is
\* the order PromptBuilder.render fills the dict in.  Each part is kept
\* with the section that appended it.
RECURSIVE prompt_parts(_, _, _)
prompt_parts(sections, selections, df) ==
    IF sections = <<>> THEN [raised |-> "", parts |-> <<>>]
    ELSE LET section == Head(sections)
             data == selections[section]
             rest == prompt_parts(Tail(sections), selections, df)
         IN  IF is_skipped(data) THEN rest
             ELSE LET block == section_block(section, data, df)
                  IN  IF block.raised # ""
                      THEN [raised |-> block.raised, parts |-> <<>>]
                      ELSE IF rest.raised # "" THEN rest
                      ELSE [raised |-> "",
                            parts |-> <<[section |-> section, text |-> block.text]>>
                                      \o rest.parts]

\* A variant that appends the suffix only to a non-empty prompt.
generate_prompt_suffix_if_nonempty(selections, df, feedback) ==
    LET got == prompt_parts(ELEMENT_TYPES, selections, df)
        joined == join("\n\n", [i \in 1..Len(got.parts) |-> got.parts[i].text])
    IN  IF got.raised # "" THEN [raised |-> got.raised, text |-> ""]
        ELSE [raised |-> "",
              text |-> IF feedback /\ joined # ""
                       THEN joined \o FEEDBACK_SUFFIX ELSE joined]

\* prompt = "\n\n".join(prompt_parts), then the optional suffix.
generate_prompt(selections, df, feedback) ==
    LET got == prompt_parts(ELEMENT_TYPES, selections, df)
        joined == join("\n\n", [i \in 1..Len(got.parts) |-> got.parts[i].text])
    IN  IF got.raised # "" THEN [raised |-> got.raised, text |-> ""]
        ELSE [raised |-> "",
              text |-> IF feedback THEN joined \o FEEDBACK_SUFFIX ELSE joined]

(***************************************************************************)
(* SpecCompose: PromptBuilder.render over a stored table.  The table is    *)
(* any file the program can have written; the widgets start at their       *)
(* defaults (a selectbox on its first option, a multiselect empty), and    *)
(* every widget change re-runs the script, which regenerates the prompt.   *)
(***************************************************************************)
ComposeTitles == {"a", "b"}
ComposeTypes == {"role", "audience"}
ComposeContents == {"x", "y"}
CustomInputs == {"c"}

ComposeRows ==
    [title : ComposeTitles, type : ComposeTypes, content : ComposeContents]

RECURSIVE SeqsUpTo(_, _)
SeqsUpTo(S, n) ==
    IF n = 0 THEN {<<>>}
    ELSE LET shorter == SeqsUpTo(S, n - 1)
         IN  shorter \cup {Append(q, x) : q \in {r \in shorter : Len(r) = n - 1}, x \in S}

Sections == Range(ELEMENT_TYPES)

DefaultSelected == [s \in Sections |-> IF s \in MULTI_SELECT THEN <<>> ELSE SKIP]

DefaultCustom == [s \in Sections |-> ""]

\* The selections dict PromptBuilder.render builds from the widgets.
render_selections(df, sel, typed) ==
    [s \in Sections |-> create_section(s, df, s \in MULTI_SELECT, sel[s], typed[s])]

\* PromptBuilder.render: load the elements, build the sections, generate.
PromptBuilder_render(file, sel, typed, feedback) ==
    LET df == load_data(file, CSV_COLUMNS)
    IN  generate_prompt(render_selections(df, sel, typed), df, feedback)

IdleSessions == [w \in {1, 2} |-> "idle"]

NoLocal == [w \in {1, 2} |-> <<>>]

(***************************************************************************)
(* Spec: one session.  The user's inputs come from small text domains;     *)
(* the seconds of the wall clock from a short range.  Row labels are the   *)
(* positions 1..n here and 0..n-1 in pandas.                               *)
(***************************************************************************)
TitleInputs == {"", "a"}
TypeInputs == {"role", "audience"}
ContentInputs == {"", "x"}
NameInputs == {"", "n"}
Seconds == 0..1

\* datetime.now().strftime("%Y-%m-%d %H:%M:%S"), second resolution.
strftime(t) == "2026-11-01 00:00:0" \o ToString(t)

Op(name, index, view) == [name |-> name, index |-> index, view |-> view]

\* A variant that saves the new row alone, not the loaded table with it.
save_prompt_new_row_only(file, name, text, t) ==
    LET df == EmptyFrame(PROMPT_HISTORY_COLUMNS)
        new_row == [name |-> name, timestamp |-> strftime(t), prompt |-> text]
    IN  save_data(concat(df, new_row))

\* save_prompt: load the history, append one row, save.
save_prompt(file, name, text, t) ==
    LET df == load_data(file, PROMPT_HISTORY_COLUMNS)
        new_row == [name |-> name, timestamp |-> strftime(t), prompt |-> text]
    IN  save_data(concat(df, new_row))

\* ['All'] + sorted(df['type'].unique().tolist())
all_types(df) == {"All"} \cup {df.rows[i].type : i \in 1..Len(df.rows)}

\* A variant whose labels are the positions within the filtered list.
filtered_index_reset(df, selected_type) ==
    1..Len(SelectSeq(df.rows, LAMBDA r : selected_type = "All" \/ r.type = selected_type))

\* The labels filtered_df.iterrows() yields: the rows' labels in df.
filtered_index(df, selected_type) ==
    {i \in 1..Len(df.rows) : selected_type = "All" \/ df.rows[i].type = selected_type}

\* A variant that leaves the type column as it was.
df_at_keep_type(df, index, new_title, new_type, new_content) ==
    [df EXCEPT !.rows[index] =
        [title |-> new_title, type |-> df.rows[index].type, content |-> new_content]]

\* df.at[index, ...] = ... for the three columns.
df_at(df, index, new_title, new_type, new_content) ==
    [df EXCEPT !.rows[index] =
        [title |-> new_title, type |-> new_type, content |-> new_content]]

\* df.drop(index)
drop(df, index) ==
    [df EXCEPT !.rows = [i \in 1..(Len(df.rows) - 1) |->
                            IF i < index THEN df.rows[i] ELSE df.rows[i + 1]]]

\* PromptBrowser.render: what the Browse tab shows.  A missing file is a
\* warning; the file is not created.
PromptBrowser_render(file) ==
    IF ~file.exists THEN [warning |-> "No history found.", csv |-> NoFile, shown |-> <<>>]
    ELSE LET df == read_csv(file)
         IN  [warning |-> "",
              csv |-> to_csv(df),
              shown |-> [i \in 1..Len(df.rows) |-> df.rows[Len(df.rows) + 1 - i]]]

Init ==
    /\ elements = NoFile
    /\ history = NoFile
    /\ now = 0
    /\ lastOp = Op("init", 0, "All")
    /\ selected = DefaultSelected
    /\ custom = DefaultCustom
    /\ recursive_feedback = FALSE
    /\ prompt = [raised |-> "", text |-> ""]
    /\ clicks = 0
    /\ pc = IdleSessions
    /\ local = NoLocal
    /\ acked = {}

\* A run of main() with no button pressed: ElementEditor.render and
\* PromptBuilder.render load the elements, PromptBrowser.render reads the
\* history if it exists.
Render ==
    /\ elements' = load_data_file(elements, CSV_COLUMNS)
    /\ lastOp' = Op("render", 0, "All")
    /\ UNCHANGED <<history, now, widgetVars, sessionVars>>

\* ElementCreator.render with "Add Element" pressed.  A valid input is
\* saved and st.rerun() starts a fresh run; an invalid one shows an error
\* and the run goes on to the other tabs.
AddElement(element_type, title, content) ==
    /\ lastOp.name # "init"
    /\ IF title # "" /\ content # ""
       THEN /\ Len(elements.rows) < MaxElems
            /\ LET df == load_data(elements, CSV_COLUMNS)
                   new_row == [title |-> title, type |-> element_type, content |-> content]
               IN  elements' = load_data_file(save_data(concat(df, new_row)), CSV_COLUMNS)
            /\ lastOp' = Op("add", 0, "All")
       ELSE /\ elements' = load_data_file(elements, CSV_COLUMNS)
            /\ lastOp' = Op("add_rejected", 0, "All")
    /\ UNCHANGED <<history, now, widgetVars, sessionVars>>

\* ElementEditor.render with the "Update" button of row `index` pressed,
\* the filter on `selected_type`.
UpdateElement(selected_type, index, new_title, new_type, new_content) ==
    /\ lastOp.name # "init"
    /\ LET df == load_data(load_data_file(elements, CSV_COLUMNS), CSV_COLUMNS)
       IN  /\ df.rows # <<>>
           /\ selected_type \in all_types(df)
           /\ index \in filtered_index(df, selected_type)
           /\ elements' = load_data_file(
                  save_data(df_at(df, index, new_title, new_type, new_content)),
                  CSV_COLUMNS)
    /\ lastOp' = Op("update", index, selected_type)
    /\ UNCHANGED <<history, now, widgetVars, sessionVars>>

\* ElementEditor.render with the "Delete" button of row `index` pressed.
DeleteElement(selected_type, index) ==
    /\ lastOp.name # "init"
    /\ LET df == load_data(load_data_file(elements, CSV_COLUMNS), CSV_COLUMNS)
       IN  /\ df.rows # <<>>
           /\ selected_type \in all_types(df)
           /\ index \in filtered_index(df, selected_type)
           /\ elements' = load_data_file(save_data(drop(df, index)), CSV_COLUMNS)
    /\ lastOp' = Op("delete", index, selected_type)
    /\ UNCHANGED <<history, now, widgetVars, sessionVars>>

\* The selections a saving user has made: a role, every other section at
\* its default.
SaveSelections(df) ==
    {[DefaultSelected EXCEPT !["role"] = o] : o \in Range(section_options(df, "role"))}

\* A run with "Save Prompt" pressed: the tabs before it render, the prompt
\* is generated, and a named prompt is appended to the history.  A prompt
\* whose generation raises ends the run before the button.
SavePrompt(prompt_name, sel, feedback) ==
    /\ lastOp.name # "init"
    /\ elements' = load_data_file(elements, CSV_COLUMNS)
    /\ sel \in SaveSelections(load_data(elements', CSV_COLUMNS))
    /\ LET typed == [s \in Sections |-> "c"]
           made == PromptBuilder_render(elements', sel, typed, feedback)
       IN  IF made.raised # ""
           THEN /\ history' = history
                /\ lastOp' = Op("raised", 0, "All")
           ELSE IF prompt_name = ""
           THEN /\ history' = history
                /\ lastOp' = Op("save_rejected", 0, "All")
           ELSE /\ Len(history.rows) < MaxHist
                /\ history' = save_prompt(history, prompt_name, made.text, now)
                /\ lastOp' = Op("save_prompt", 0, "All")
    /\ UNCHANGED <<now, widgetVars, sessionVars>>

\* The wall clock moves to the next second.
Tick ==
    /\ now + 1 \in Seconds
    /\ now' = now + 1
    /\ UNCHANGED <<elements, history, lastOp, widgetVars, sessionVars>>

\* The whole tool.  The element inputs are kept to one type and one
\* content here; SpecElements below runs the element tabs over all of them.
Next ==
    \/ Render
    \/ \E t \in TitleInputs : AddElement("role", t, "x")
    \/ \E v \in {"role", "All"}, i \in 1..MaxElems, t \in TitleInputs :
          UpdateElement(v, i, t, "role", "x")
    \/ \E v \in {"role", "All"}, i \in 1..MaxElems : DeleteElement(v, i)
    \/ \E n \in NameInputs :
          \E sel \in SaveSelections(load_data(elements, CSV_COLUMNS)) :
             SavePrompt(n, sel, FALSE)
    \/ Tick

Spec == Init /\ [][Next]_vars

\* The Element Creator and Element Editor tabs alone.
NextElements ==
    \/ Render
    \/ \E ty \in TypeInputs, t \in TitleInputs, c \in ContentInputs : AddElement(ty, t, c)
    \/ \E v \in TypeInputs \cup {"All"}, i \in 1..MaxElems, ty \in TypeInputs,
          t \in TitleInputs, c \in ContentInputs : UpdateElement(v, i, t, ty, c)
    \/ \E v \in TypeInputs \cup {"All"}, i \in 1..MaxElems : DeleteElement(v, i)

SpecElements == Init /\ [][NextElements]_vars

InitCompose ==
    /\ \E rows \in SeqsUpTo(ComposeRows, MaxRows) :
          elements = [exists |-> TRUE, header |-> CSV_COLUMNS, rows |-> rows]
    /\ history = NoFile
    /\ now = 0
    /\ lastOp = [name |-> "render", index |-> 0, view |-> "All"]
    /\ selected = DefaultSelected
    /\ custom = DefaultCustom
    /\ recursive_feedback = FALSE
    /\ prompt = PromptBuilder_render(elements, selected, custom, recursive_feedback)
    /\ clicks = 0
    /\ pc = IdleSessions
    /\ local = NoLocal
    /\ acked = {}

\* st.selectbox: the user picks one option of a single-choice section.
SelectBox(section, option, typed) ==
    /\ clicks < MaxClicks
    /\ section \notin MULTI_SELECT
    /\ option \in Range(section_options(load_data(elements, CSV_COLUMNS), section))
    /\ option # selected[section]
    /\ selected' = [selected EXCEPT ![section] = option]
    /\ custom' = IF option = WRITE_YOUR_OWN
                 THEN [custom EXCEPT ![section] = typed] ELSE custom
    /\ prompt' = PromptBuilder_render(elements, selected', custom', recursive_feedback)
    /\ clicks' = clicks + 1
    /\ UNCHANGED <<storeVars, sessionVars, recursive_feedback>>

\* st.multiselect: the user adds one more option to a multi-choice section;
\* the widget's value lists the options in the order they were picked.
MultiSelect(section, option, typed) ==
    /\ clicks < MaxClicks
    /\ section \in MULTI_SELECT
    /\ option \in Range(section_options(load_data(elements, CSV_COLUMNS), section))
    /\ option \notin Range(selected[section])
    /\ selected' = [selected EXCEPT ![section] = Append(@, option)]
    /\ custom' = IF option = WRITE_YOUR_OWN
                 THEN [custom EXCEPT ![section] = typed] ELSE custom
    /\ prompt' = PromptBuilder_render(elements, selected', custom', recursive_feedback)
    /\ clicks' = clicks + 1
    /\ UNCHANGED <<storeVars, sessionVars, recursive_feedback>>

\* st.checkbox("Request recursive feedback")
ToggleFeedback ==
    /\ clicks < MaxClicks
    /\ recursive_feedback' = ~recursive_feedback
    /\ prompt' = PromptBuilder_render(elements, selected, custom, recursive_feedback')
    /\ clicks' = clicks + 1
    /\ UNCHANGED <<storeVars, sessionVars, selected, custom>>

NextCompose ==
    \/ \E s \in Sections, o \in ComposeTitles \cup {SKIP, WRITE_YOUR_OWN},
          t \in CustomInputs : SelectBox(s, o, t)
    \/ \E s \in Sections, o \in ComposeTitles \cup {SKIP, WRITE_YOUR_OWN},
          t \in CustomInputs : MultiSelect(s, o, t)
    \/ ToggleFeedback

SpecCompose == InitCompose /\ [][NextCompose]_vars

(***************************************************************************)
(* SpecConc: two sessions on the same files.  A handler's load and its     *)
(* save are separate steps, and the other session may run between them.    *)
(* Both sessions have rendered the page, so the elements file exists.      *)
(* `clicks` counts the buttons pressed.  `acked` is history: the records   *)
(* whose save completed and that no later save meant to remove or          *)
(* overwrite.                                                              *)
(***************************************************************************)
Sessions == {1, 2}

\* What each session types: its own title and prompt name.
SessionTitle == <<"a", "b">>
SessionName == <<"n", "m">>

Pending(op, store, df, index, row) ==
    [op |-> op, store |-> store, df |-> df, index |-> index, row |-> row]

\* A variant that applies the change to the file as it is at the save.
written_reloaded(l) ==
    LET cur == IF l.store = "elements" THEN load_data(elements, CSV_COLUMNS)
               ELSE load_data(history, PROMPT_HISTORY_COLUMNS)
    IN  CASE l.op \in {"add", "append"} -> concat(cur, l.row)
          [] l.op = "update" ->
                IF l.index \in 1..Len(cur.rows)
                THEN df_at(cur, l.index, l.row.title, l.row.type, l.row.content)
                ELSE cur
          [] l.op = "delete" ->
                IF l.index \in 1..Len(cur.rows) THEN drop(cur, l.index) ELSE cur

\* The frame a handler hands to save_data: the frame it loaded with its
\* own change applied.
written(l) ==
    CASE l.op \in {"add", "append"} -> concat(l.df, l.row)
      [] l.op = "update" -> df_at(l.df, l.index, l.row.title, l.row.type, l.row.content)
      [] l.op = "delete" -> drop(l.df, l.index)

InitConc ==
    /\ elements = to_csv(EmptyFrame(CSV_COLUMNS))
    /\ history = NoFile
    /\ now = 0
    /\ lastOp = Op("render", 0, "All")
    /\ selected = DefaultSelected
    /\ custom = DefaultCustom
    /\ recursive_feedback = FALSE
    /\ prompt = [raised |-> "", text |-> ""]
    /\ clicks = 0
    /\ pc = IdleSessions
    /\ local = NoLocal
    /\ acked = {}

\* ElementCreator.render, "Add Element" pressed: load_data.
BeginAdd(w) ==
    /\ pc[w] = "idle"
    /\ clicks < MaxPresses
    /\ clicks' = clicks + 1
    /\ LET df == load_data(elements, CSV_COLUMNS)
           new_row == [title |-> SessionTitle[w], type |-> "role", content |-> "x"]
       IN  /\ Len(df.rows) < MaxElems
           /\ local' = [local EXCEPT ![w] = Pending("add", "elements", df, 0, new_row)]
    /\ pc' = [pc EXCEPT ![w] = "loaded"]
    /\ UNCHANGED <<storeVars, selected, custom, recursive_feedback, prompt, acked>>

\* ElementEditor.render, "Update" of row `index` pressed, no filter: the
\* load and the three assignments.
BeginUpdate(w, index) ==
    /\ pc[w] = "idle"
    /\ clicks < MaxPresses
    /\ clicks' = clicks + 1
    /\ LET df == load_data(elements, CSV_COLUMNS)
           new_row == [title |-> SessionTitle[w], type |-> "role", content |-> "u"]
       IN  /\ index \in filtered_index(df, "All")
           /\ local' = [local EXCEPT ![w] = Pending("update", "elements", df, index, new_row)]
    /\ pc' = [pc EXCEPT ![w] = "loaded"]
    /\ UNCHANGED <<storeVars, selected, custom, recursive_feedback, prompt, acked>>

\* ElementEditor.render, "Delete" of row `index` pressed: the load and the
\* drop.
BeginDelete(w, index) ==
    /\ pc[w] = "idle"
    /\ clicks < MaxPresses
    /\ clicks' = clicks + 1
    /\ LET df == load_data(elements, CSV_COLUMNS)
       IN  /\ index \in filtered_index(df, "All")
           /\ local' = [local EXCEPT ![w] =
                           Pending("delete", "elements", df, index, df.rows[index])]
    /\ pc' = [pc EXCEPT ![w] = "loaded"]
    /\ UNCHANGED <<storeVars, selected, custom, recursive_feedback, prompt, acked>>

\* save_prompt up to its load_data, which creates a missing history file.
\* The prompt is the one generated for a custom role.
BeginSavePrompt(w) ==
    /\ pc[w] = "idle"
    /\ clicks < MaxPresses
    /\ clicks' = clicks + 1
    /\ LET df == load_data(history, PROMPT_HISTORY_COLUMNS)
           sel == [DefaultSelected EXCEPT !["role"] = WRITE_YOUR_OWN]
           made == PromptBuilder_render(elements, sel, [s \in Sections |-> "c"], FALSE)
           new_row == [name |-> SessionName[w], timestamp |-> strftime(now),
                       prompt |-> made.text]
       IN  /\ Len(df.rows) < MaxHist
           /\ local' = [local EXCEPT ![w] = Pending("append", "history", df, 0, new_row)]
    /\ history' = load_data_file(history, PROMPT_HISTORY_COLUMNS)
    /\ pc' = [pc EXCEPT ![w] = "loaded"]
    /\ UNCHANGED <<elements, now, lastOp, selected, custom, recursive_feedback, prompt, acked>>

\* The handler's save_data: the whole file is overwritten by the session's
\* frame, whatever the file holds by now.
Finish(w) ==
    /\ pc[w] = "loaded"
    /\ LET l == local[w]
           meant == IF l.op \in {"update", "delete"}
                    THEN {[store |-> l.store, row |-> l.df.rows[l.index]]} ELSE {}
           saved == IF l.op = "delete" THEN {}
                    ELSE {[store |-> l.store, row |-> read_row(l.row)]}
       IN  /\ IF l.store = "elements"
              THEN elements' = save_data(written(l)) /\ history' = history
              ELSE history' = save_data(written(l)) /\ elements' = elements
           /\ acked' = (acked \ meant) \cup saved
    /\ pc' = [pc EXCEPT ![w] = "idle"]
    /\ local' = [local EXCEPT ![w] = <<>>]
    /\ UNCHANGED <<now, lastOp, widgetVars>>

NextConc ==
    \E w \in Sessions :
        \/ BeginAdd(w)
        \/ \E i \in 1..MaxElems : BeginUpdate(w, i)
        \/ \E i \in 1..MaxElems : BeginDelete(w, i)
        \/ BeginSavePrompt(w)
        \/ Finish(w)

SpecConc == InitConc /\ [][NextConc]_vars

(***************************************************************************)
(* Claims about compose, read on the state of SpecCompose.                 *)
(***************************************************************************)
Df == load_data(elements, CSV_COLUMNS)

Selections == render_selections(Df, selected, custom)

\* The sections whose block is in the generated prompt.
Emitted ==
    LET parts == prompt_parts(ELEMENT_TYPES, Selections, Df).parts
    IN  {parts[i].section : i \in 1..Len(parts)}

\* The omission rule as the specification words it: Skip, an empty
\* multi-selection, or a multi-selection consisting only of Skip.
OmittedBySpec(s) ==
    IF s \in MULTI_SELECT THEN Range(selected[s]) \subseteq {SKIP}
    ELSE selected[s] = SKIP

\* C1: a category is omitted from the output exactly when its selection is
\* Skip, an empty multi-selection or a multi-selection of Skip alone; every
\* other selection (Skip together with a title or "Write your own") emits a
\* block.
C1_OmittedExactlyWhenSkip ==
    prompt.raised = "" =>
        \A s \in Sections : (s \notin Emitted) <=> OmittedBySpec(s)

\* The contents of the elements of category s titled t.
OwnContents(s, t) ==
    {r.content : r \in {q \in Range(Df.rows) : q.type = s /\ q.title = t}}

AllContents == {r.content : r \in Range(Df.rows)}

\* The titles selected in section s, in selection order.
PickedTitles(s) ==
    IF s \in MULTI_SELECT
    THEN SelectSeq(selected[s], LAMBDA o : o \notin {SKIP, WRITE_YOUR_OWN})
    ELSE IF selected[s] \in {SKIP, WRITE_YOUR_OWN} THEN <<>> ELSE <<selected[s]>>

\* Every way to resolve the picked titles of s within category s.
OwnResolutions(s) ==
    LET picked == PickedTitles(s)
    IN  {f \in [1..Len(picked) -> AllContents] :
            \A i \in 1..Len(picked) : f[i] \in OwnContents(s, picked[i])}

\* The blocks the specification allows for section s.
BlocksBySpec(s) ==
    IF s \in MULTI_SELECT
    THEN {title_case(s) \o ":\n"
            \o join("\n", (IF WRITE_YOUR_OWN \in Range(selected[s])
                           THEN <<custom[s]>> ELSE <<>>) \o f) :
          f \in OwnResolutions(s)}
    ELSE IF selected[s] = WRITE_YOUR_OWN
         THEN {title_case(s) \o ": " \o custom[s]}
         ELSE {title_case(s) \o ": " \o f[1] : f \in OwnResolutions(s)}

\* C2: the content emitted for a selected title is the content of an element
\* of that category with that title, also when an element of another
\* category stored earlier has the same title.
C2_ContentFromOwnCategory ==
    prompt.raised = "" =>
        LET parts == prompt_parts(ELEMENT_TYPES, Selections, Df).parts
        IN  \A i \in 1..Len(parts) :
               parts[i].text \in BlocksBySpec(parts[i].section)

\* Every category set to Skip.
AllSkip ==
    \A s \in Sections :
        IF s \in MULTI_SELECT THEN Range(selected[s]) \subseteq {SKIP}
        ELSE selected[s] = SKIP

\* C3 as stated: with every category set to Skip the prompt is the empty
\* string, no suffix, for both values of the feedback flag.
C3_AllSkipIsEmpty == AllSkip => prompt = [raised |-> "", text |-> ""]

\* C3 as amended: with every category set to Skip the prompt holds no
\* category block; it is empty when the feedback flag is off and is exactly
\* the feedback suffix when the flag is on.
C3_AllSkipIsSuffixOnly ==
    AllSkip =>
        prompt = [raised |-> "",
                  text |-> IF recursive_feedback THEN FEEDBACK_SUFFIX ELSE ""]

\* C3's case: an explicit Skip in a multi-selection, the flag on.
C3_Witness ==
    /\ AllSkip
    /\ \E s \in MULTI_SELECT : selected[s] = <<SKIP>>
    /\ recursive_feedback
    /\ prompt.text = FEEDBACK_SUFFIX

\* The sections of `sections` the code does not skip, in order.
RECURSIVE kept_sections(_)
kept_sections(sections) ==
    IF sections = <<>> THEN <<>>
    ELSE (IF Head(sections) \in Emitted THEN <<Head(sections)>> ELSE <<>>)
         \o kept_sections(Tail(sections))

\* Every text the specification allows: one block per kept section, in the
\* fixed order, joined by one blank line.
RECURSIVE TextsBySpec(_)
TextsBySpec(kept) ==
    IF kept = <<>> THEN {""}
    ELSE IF Len(kept) = 1 THEN BlocksBySpec(kept[1])
    ELSE {b \o "\n\n" \o t : b \in BlocksBySpec(kept[1]), t \in TextsBySpec(Tail(kept))}

\* C4: the output before the suffix is the blocks of the non-omitted
\* categories in the order role, goal, audience, context, output, tone,
\* joined by one blank line; a single-choice block is "<Label>: <content>",
\* a multi-choice block "<Label>:\n" and the newline-join of the custom
\* string first, then the content of every other selected title in
\* selection order.
C4_OutputIsOrderedJoin ==
    prompt.raised = "" =>
        prompt.text \in
            {t \o (IF recursive_feedback THEN FEEDBACK_SUFFIX ELSE "") :
             t \in TextsBySpec(kept_sections(ELEMENT_TYPES))}

(***************************************************************************)
(* Claims about the stores, read on the state of Spec and SpecElements.    *)
(* A table is what load returns for the file.                              *)
(***************************************************************************)
ElemTable == load_data(elements, CSV_COLUMNS).rows

HistTable == load_data(history, PROMPT_HISTORY_COLUMNS).rows

RemoveAt(s, p) == SubSeq(s, 1, p - 1) \o SubSeq(s, p + 1, Len(s))

IsPrefix(s, t) == Len(s) <= Len(t) /\ SubSeq(t, 1, Len(s)) = s

Views == TypeInputs \cup {"All"}

\* C5: after any sequence of add, update and delete from an empty store,
\* every stored element has a non-empty title and a category among the six
\* element types.
C5_StoredElementsValid ==
    \A i \in 1..Len(elements.rows) :
        /\ elements.rows[i].title # ""
        /\ elements.rows[i].type \in Range(ELEMENT_TYPES)

C9_MissingStoreIsCreated ==
    lastOp.name # "init" =>
        /\ elements.exists /\ elements.header = CSV_COLUMNS
        /\ history.exists /\ history.header = PROMPT_HISTORY_COLUMNS

(***************************************************************************)
(* Claims about interleaved sessions, read on the state of SpecConc.       *)
(***************************************************************************)
\* The rows a session's save leaves, from the rows it loaded.
OwnChange(l) ==
    LET rows == l.df.rows
    IN  CASE l.op \in {"add", "append"} -> Append(rows, read_row(l.row))
          [] l.op = "update" ->
                [j \in 1..Len(rows) |-> IF j = l.index THEN read_row(l.row) ELSE rows[j]]
          [] l.op = "delete" -> RemoveAt(rows, l.index)

\* C10: no session's save is refused or checked against the file: a save
\* is always possible after the load, and the file after it holds the table
\* that session loaded with its own change applied, whatever the other
\* session saved in between.
C10_LastSaveWins ==
    [][\A w \in Sessions :
          /\ pc[w] = "loaded" => ENABLED Finish(w)
          /\ Finish(w) =>
                IF local[w].store = "elements"
                THEN ElemTable' = OwnChange(local[w])
                ELSE HistTable' = OwnChange(local[w])]_vars

\* C10's case: a record whose save completed, which no later save meant to
\* remove, is absent from its store.
C10_Witness ==
    \E r \in acked :
        IF r.store = "elements" THEN r.row \notin Range(ElemTable)
        ELSE r.row \notin Range(HistTable)

====
